---- MODULE Spec2Model ----
(***************************************************************************)
(* The job queue of src/app.py (lines 162-303): the JOBS map, JOBS_LOCK,   *)
(* the lifecycle functions new_job, next_queued_job_and_claim,             *)
(* update_job_done, update_job_failed and the Flask handlers generate,     *)
(* status, get_result, job_next and job_complete.                          *)
(*                                                                         *)
(* Every request runs on its own thread.  A thread is a program counter pc *)
(* with the handler's arguments (arg), its local variables (loc) and the   *)
(* response it produced (resp).  A handler is cut into steps at every      *)
(* access to a job record that another thread can interleave with: the     *)
(* field assignments made under JOBS_LOCK are separate steps, because      *)
(* status, get_result and job_complete read JOBS without taking the lock.  *)
(* Acquiring the lock is merged with the first access under it, and        *)
(* releasing it with the last one: no thread can tell the difference.      *)
(***************************************************************************)
EXTENDS Integers, Sequences, FiniteSets, TLC

VARIABLES JOBS, order, JOBS_LOCK, now, uuids, files, requests, pc, arg, loc, resp

vars == <<JOBS, order, JOBS_LOCK, now, uuids, files, requests, pc, arg, loc, resp>>

store == <<JOBS, order>>

\* ---------------------------------------------------------------- bounds
MaxJobs == 2
MaxTime == 2
NumThreads == 2
NumWorkers == 3
MaxRequests == 3

\* ---------------------------------------------------------------- values
None == "None"
NoTime == 0
NoResult == << >>
NoThread == 0

Threads == 1..NumThreads
JobIds == {"j" \o ToString(i) : i \in 1..MaxJobs}
UnknownId == "j0"
RequestIds == JobIds \cup {UnknownId}
Prompts == {"", "sunset wedding stage"}
WorkerIds == {"w1", "w2"}
FileNames == {"scene.glb"}
ModelUrls == {"", "http://cdn/scene.glb"}
ErrorMsgs == {"render timeout"}

NoArg == [op |-> None, job_id |-> None, data |-> None]

\* the request a handler works on: its endpoint, the job id of its path
\* and the one value of its body the handler uses
Request(op, job_id, data) == [op |-> op, job_id |-> job_id, data |-> data]
NoLoc == [id |-> None]
NoResp == [code |-> 0, kind |-> None, body |-> None]

Response(c, k, b) == [code |-> c, kind |-> k, body |-> b]

\* the n-th identifier uuid.uuid4().hex hands out
Uuid4Mutant(n) == "j" \o ToString(1)
Uuid4(n) == "j" \o ToString(n)

\* f"/result/{job_id}"
ResultUrlMutant(job_id) == "/result/" \o "job_id"
ResultUrl(job_id) == "/result/" \o job_id

\* f"{job_id}__{filename}"
OutFname(job_id, filename) == job_id \o "__" \o filename

\* a result record, or NoResult for None
ResultMutant(file, url) == << [file |-> file, url |-> file] >>
Result(file, url) == << [file |-> file, url |-> url] >>

\* the record new_job builds
NewJobRecordMutant(job_id, prompt, meta, t) ==
    [id |-> job_id, prompt |-> prompt, meta |-> meta, status |-> "queued",
     created_at |-> t, started_at |-> t, finished_at |-> NoTime,
     result |-> NoResult, worker_id |-> None, error |-> None]

NewJobRecord(job_id, prompt, meta, t) ==
    [id |-> job_id, prompt |-> prompt, meta |-> meta, status |-> "queued",
     created_at |-> t, started_at |-> NoTime, finished_at |-> NoTime,
     result |-> NoResult, worker_id |-> None, error |-> None]

\* JOBS.get(job_id) is truthy
Known(job_id) == job_id \in DOMAIN JOBS

\* "with JOBS_LOCK:" can be entered by thread t
LockFreeMutant(t) == TRUE
LockFree(t) == JOBS_LOCK = NoThread

\* the status a claim looks for in its scan
ClaimableMutant(job_id) == JOBS[job_id].status \in {"queued", "running"}
Claimable(job_id) == JOBS[job_id].status = "queued"

\* the first job of JOBS.values() whose status is "queued", as a set
FirstQueuedFromMutant(s) ==
    LET queued == {i \in DOMAIN s : Claimable(s[i])} IN
      IF queued = {} THEN {}
      ELSE {s[CHOOSE i \in queued : \A k \in queued : k <= i]}

RECURSIVE FirstQueuedFrom(_)
FirstQueuedFrom(s) ==
    IF s = << >> THEN {}
    ELSE IF Claimable(Head(s)) THEN {Head(s)}
    ELSE FirstQueuedFrom(Tail(s))

FirstQueued == FirstQueuedFrom(order)

\* ------------------------------------------------------------ thread steps
Goto(t, label) == pc' = [pc EXCEPT ![t] = label]

\* the handler returns response r
Reply(t, r) ==
    /\ pc' = [pc EXCEPT ![t] = "ret"]
    /\ loc' = [loc EXCEPT ![t] = NoLoc]
    /\ resp' = [resp EXCEPT ![t] = r]

\* a thread takes request a off the wire; idle threads are interchangeable,
\* so the lowest one takes it
Accept(t, a) ==
    /\ pc[t] = "idle"
    /\ \A u \in DOMAIN pc : u < t => pc[u] # "idle"
    /\ requests < MaxRequests
    /\ requests' = requests + 1
    /\ arg' = [arg EXCEPT ![t] = a]

\* the handler's response has been sent; the thread serves the next request
Respond(t) ==
    /\ pc[t] = "ret"
    /\ pc' = [pc EXCEPT ![t] = "idle"]
    /\ arg' = [arg EXCEPT ![t] = NoArg]
    /\ resp' = [resp EXCEPT ![t] = NoResp]
    /\ UNCHANGED <<JOBS, order, JOBS_LOCK, now, uuids, files, requests, loc>>

\* time.time() advances
Tick ==
    /\ now < MaxTime
    /\ now' = now + 1
    /\ UNCHANGED <<JOBS, order, JOBS_LOCK, uuids, files, requests, pc, arg, loc, resp>>

\* ------------------------------------------------- generate / new_job
\* POST /generate: 400 on a missing prompt, else new_job builds the record
\* (uuid4, time.time()) before it takes the lock
generate(t) ==
    /\ \E prompt \in Prompts :
         /\ Accept(t, Request("generate", None, prompt))
         /\ IF prompt = ""
            THEN /\ Reply(t, Response(400, "missing prompt", None))
                 /\ UNCHANGED uuids
            ELSE /\ uuids < MaxJobs
                 /\ uuids' = uuids + 1
                 /\ Goto(t, "new_job_insert")
                 /\ loc' = [loc EXCEPT ![t] =
                              NewJobRecord(Uuid4(uuids + 1), prompt, "{}", now)]
                 /\ UNCHANGED resp
    /\ UNCHANGED <<JOBS, order, JOBS_LOCK, now, files>>

\* with JOBS_LOCK: JOBS[job_id] = job; then 201 with the job's id
new_job_insert(t) ==
    /\ pc[t] = "new_job_insert"
    /\ LockFree(t)
    /\ LET job == loc[t] IN
         /\ JOBS' = [j \in DOMAIN JOBS \cup {job.id} |->
                        IF j = job.id THEN job ELSE JOBS[j]]
         /\ order' = IF Known(job.id) THEN order ELSE Append(order, job.id)
         /\ Reply(t, Response(201, "job_id", job.id))
    /\ UNCHANGED <<JOBS_LOCK, now, uuids, files, requests, arg>>

\* ------------------------------- job_next / next_queued_job_and_claim
\* POST /job/next -> next_queued_job_and_claim(worker_id): with JOBS_LOCK:
\* for job in JOBS.values(): if job["status"] == "queued"; with none queued
\* the lock is released and job_next answers 204
job_next(t) ==
    /\ LockFree(t)
    /\ \E worker_id \in WorkerIds :
         Accept(t, Request("job_next", None, worker_id))
    /\ IF FirstQueued = {}
       THEN /\ Reply(t, Response(204, "none", None))
            /\ UNCHANGED JOBS_LOCK
       ELSE \E j \in FirstQueued :
            /\ JOBS_LOCK' = t
            /\ loc' = [loc EXCEPT ![t] = [id |-> j]]
            /\ Goto(t, "claim_status")
            /\ UNCHANGED resp
    /\ UNCHANGED <<JOBS, order, now, uuids, files>>

\* job["status"] = "running"
claim_status(t) ==
    /\ pc[t] = "claim_status"
    /\ JOBS' = [JOBS EXCEPT ![loc[t].id].status = "running"]
    /\ Goto(t, "claim_started")
    /\ UNCHANGED <<order, JOBS_LOCK, now, uuids, files, requests, arg, loc, resp>>

\* job["started_at"] = time.time()
claim_started(t) ==
    /\ pc[t] = "claim_started"
    /\ JOBS' = [JOBS EXCEPT ![loc[t].id].started_at = now]
    /\ Goto(t, "claim_worker")
    /\ UNCHANGED <<order, JOBS_LOCK, now, uuids, files, requests, arg, loc, resp>>

\* job["worker_id"] = worker_id; return job releases the lock; 200
claim_worker(t) ==
    /\ pc[t] = "claim_worker"
    /\ JOBS' = [JOBS EXCEPT ![loc[t].id].worker_id = arg[t].data]
    /\ JOBS_LOCK' = NoThread
    /\ Reply(t, Response(200, "job", loc[t].id))
    /\ UNCHANGED <<order, now, uuids, files, requests, arg>>

\* ---------------------------------------------------- update_job_failed
\* update_job_failed(job_id, error_msg): with JOBS_LOCK:
\* job = JOBS.get(job_id); if not job: return None; job["status"] = "failed"
update_job_failed(t) ==
    /\ LockFree(t)
    /\ \E job_id \in RequestIds, msg \in ErrorMsgs :
         /\ Accept(t, Request("update_job_failed", job_id, msg))
         /\ IF Known(job_id)
            THEN /\ JOBS_LOCK' = t
                 /\ JOBS' = [JOBS EXCEPT ![job_id].status = "failed"]
                 /\ Goto(t, "failed_finished")
                 /\ UNCHANGED <<loc, resp>>
            ELSE /\ Reply(t, Response(0, "not found", None))
                 /\ UNCHANGED <<JOBS, JOBS_LOCK>>
    /\ UNCHANGED <<order, now, uuids, files>>

\* job["finished_at"] = time.time()
failed_finishedMutant(t) ==
    /\ pc[t] = "failed_finished"
    /\ JOBS' = [JOBS EXCEPT ![arg[t].job_id].finished_at = now,
                            ![arg[t].job_id].started_at = now]
    /\ Goto(t, "failed_error")
    /\ UNCHANGED <<order, JOBS_LOCK, now, uuids, files, requests, arg, loc, resp>>

failed_finished(t) ==
    /\ pc[t] = "failed_finished"
    /\ JOBS' = [JOBS EXCEPT ![arg[t].job_id].finished_at = now]
    /\ Goto(t, "failed_error")
    /\ UNCHANGED <<order, JOBS_LOCK, now, uuids, files, requests, arg, loc, resp>>

\* job["error"] = error_msg; return job releases the lock
failed_error(t) ==
    /\ pc[t] = "failed_error"
    /\ JOBS' = [JOBS EXCEPT ![arg[t].job_id].error = arg[t].data]
    /\ JOBS_LOCK' = NoThread
    /\ Reply(t, Response(0, "job", arg[t].job_id))
    /\ UNCHANGED <<order, now, uuids, files, requests, arg>>

\* --------------------------------------------------------- job_complete
\* POST /job/<job_id>/complete: job = JOBS.get(job_id) without the lock,
\* 404 for an unknown id; then the uploaded file (out_fname is built), or
\* the model_url written under the lock, or 400
job_complete(t) ==
    /\ \E job_id \in RequestIds :
         IF ~Known(job_id)
         THEN /\ Accept(t, Request("job_complete", job_id, None))
              /\ Reply(t, Response(404, "job not found", None))
              /\ UNCHANGED <<JOBS, JOBS_LOCK>>
         ELSE \/ \E f \in FileNames :
                   /\ Accept(t, Request("job_complete", job_id, OutFname(job_id, f)))
                   /\ Goto(t, "complete_save")
                   /\ UNCHANGED <<JOBS, JOBS_LOCK, loc, resp>>
              \/ \E model_url \in ModelUrls :
                   /\ Accept(t, Request("job_complete", job_id, model_url))
                   /\ IF model_url # ""
                      THEN /\ LockFree(t)
                           /\ JOBS_LOCK' = t
                           /\ JOBS' = [JOBS EXCEPT ![job_id].status = "done"]
                           /\ Goto(t, "url_finished")
                           /\ UNCHANGED <<loc, resp>>
                      ELSE /\ Reply(t, Response(400, "no model provided", None))
                           /\ UNCHANGED <<JOBS, JOBS_LOCK>>
    /\ UNCHANGED <<order, now, uuids, files>>

\* f.save(os.path.join(UPLOAD_DIR, out_fname)); update_job_done follows
complete_saveMutant(t) ==
    /\ pc[t] = "complete_save"
    /\ Goto(t, "update_job_done")
    /\ UNCHANGED <<JOBS, order, JOBS_LOCK, now, uuids, files, requests, arg, loc, resp>>

complete_save(t) ==
    /\ pc[t] = "complete_save"
    /\ files' = files \cup {arg[t].data}
    /\ Goto(t, "update_job_done")
    /\ UNCHANGED <<JOBS, order, JOBS_LOCK, now, uuids, requests, arg, loc, resp>>

\* update_job_done(job_id, out_fname): with JOBS_LOCK:
\* job = JOBS.get(job_id); if not job: return None; job["status"] = "done"
update_job_doneMutant(t) ==
    /\ pc[t] = "update_job_done"
    /\ LockFree(t)
    /\ IF Known(arg[t].job_id) /\ JOBS[arg[t].job_id].status = "running"
       THEN /\ JOBS_LOCK' = t
            /\ JOBS' = [JOBS EXCEPT ![arg[t].job_id].status = "done"]
            /\ Goto(t, "done_finished")
            /\ UNCHANGED <<loc, resp>>
       ELSE /\ Reply(t, Response(200, "ok", ResultUrl(arg[t].job_id)))
            /\ UNCHANGED <<JOBS, JOBS_LOCK>>
    /\ UNCHANGED <<order, now, uuids, files, requests, arg>>

update_job_done(t) ==
    /\ pc[t] = "update_job_done"
    /\ LockFree(t)
    /\ IF Known(arg[t].job_id)
       THEN /\ JOBS_LOCK' = t
            /\ JOBS' = [JOBS EXCEPT ![arg[t].job_id].status = "done"]
            /\ Goto(t, "done_finished")
            /\ UNCHANGED <<loc, resp>>
       ELSE /\ Reply(t, Response(200, "ok", ResultUrl(arg[t].job_id)))
            /\ UNCHANGED <<JOBS, JOBS_LOCK>>
    /\ UNCHANGED <<order, now, uuids, files, requests, arg>>

\* job["finished_at"] = time.time()
done_finished(t) ==
    /\ pc[t] = "done_finished"
    /\ JOBS' = [JOBS EXCEPT ![arg[t].job_id].finished_at = now]
    /\ Goto(t, "done_result")
    /\ UNCHANGED <<order, JOBS_LOCK, now, uuids, files, requests, arg, loc, resp>>

\* job["result"] = {"file": result_filename, "url": f"/result/{job_id}"};
\* return job releases the lock; job_complete answers 200 with that path
done_result(t) ==
    /\ pc[t] = "done_result"
    /\ JOBS' = [JOBS EXCEPT ![arg[t].job_id].result =
                   Result(arg[t].data, ResultUrl(arg[t].job_id))]
    /\ JOBS_LOCK' = NoThread
    /\ Reply(t, Response(200, "ok", ResultUrl(arg[t].job_id)))
    /\ UNCHANGED <<order, now, uuids, files, requests, arg>>

\* job["finished_at"] = time.time() of the model_url branch
url_finished(t) ==
    /\ pc[t] = "url_finished"
    /\ JOBS' = [JOBS EXCEPT ![arg[t].job_id].finished_at = now]
    /\ Goto(t, "url_result")
    /\ UNCHANGED <<order, JOBS_LOCK, now, uuids, files, requests, arg, loc, resp>>

\* job["result"] = {"file": None, "url": model_url}; the lock is released
url_result(t) ==
    /\ pc[t] = "url_result"
    /\ JOBS' = [JOBS EXCEPT ![arg[t].job_id].result = Result(None, arg[t].data)]
    /\ JOBS_LOCK' = NoThread
    /\ Reply(t, Response(200, "ok", arg[t].data))
    /\ UNCHANGED <<order, now, uuids, files, requests, arg>>

\* --------------------------------------------------------------- status
\* the keys job.items() yields first: the copy of them is taken with the
\* lookup (id, prompt and created_at never change)
StatusFirstKeys == {"id", "prompt", "status", "created_at"}

\* the keys job.items() yields after them, in the record's order
StatusKeys == <<"started_at", "finished_at", "result", "worker_id", "error">>

\* GET /status/<job_id>: job = JOBS.get(job_id) without the lock, 404 for
\* an unknown id; the copy without "meta" starts
status(t) ==
    /\ \E job_id \in RequestIds :
         /\ Accept(t, Request("status", job_id, None))
         /\ IF ~Known(job_id)
            THEN Reply(t, Response(404, "not found", None))
            ELSE /\ loc' = [loc EXCEPT ![t] =
                              [k \in StatusFirstKeys |-> JOBS[job_id][k]]]
                 /\ Goto(t, "status_items")
                 /\ UNCHANGED resp
    /\ UNCHANGED <<JOBS, order, JOBS_LOCK, now, uuids, files>>

\* the next item of {k: v for k, v in job.items() if k != "meta"}; after
\* the last one jsonify answers 200 with the copy
status_items(t) ==
    /\ pc[t] = "status_items"
    /\ LET n == Cardinality(DOMAIN loc[t]) - Cardinality(StatusFirstKeys) + 1
           k == StatusKeys[n]
           copy == [f \in DOMAIN loc[t] \cup {k} |->
                      IF f = k THEN JOBS[arg[t].job_id][k] ELSE loc[t][f]]
       IN  IF n < Len(StatusKeys)
           THEN /\ loc' = [loc EXCEPT ![t] = copy]
                /\ UNCHANGED <<pc, resp>>
           ELSE Reply(t, Response(200, "record", copy))
    /\ UNCHANGED <<JOBS, order, JOBS_LOCK, now, uuids, files, requests, arg>>

\* ----------------------------------------------------------- get_result
\* if job["status"] != "done"
NotDoneMutant(job_id) == JOBS[job_id].status \notin {"done", "failed"}
NotDone(job_id) == JOBS[job_id].status # "done"

\* GET /result/<job_id>: job = JOBS.get(job_id) without the lock, 404 for
\* an unknown id, 404 "result not ready" unless the status is done
get_resultMutant(t) ==
    /\ \E job_id \in RequestIds :
         /\ Accept(t, Request("get_result", job_id, None))
         /\ IF ~Known(job_id) \/ NotDone(job_id)
            THEN Reply(t, Response(404, "result not ready", None))
            ELSE /\ Goto(t, "result_file")
                 /\ UNCHANGED <<loc, resp>>
    /\ UNCHANGED <<JOBS, order, JOBS_LOCK, now, uuids, files>>

get_result(t) ==
    /\ \E job_id \in RequestIds :
         /\ Accept(t, Request("get_result", job_id, None))
         /\ IF ~Known(job_id)
            THEN Reply(t, Response(404, "not found", None))
            ELSE IF NotDone(job_id)
            THEN Reply(t, Response(404, "result not ready", None))
            ELSE /\ Goto(t, "result_file")
                 /\ UNCHANGED <<loc, resp>>
    /\ UNCHANGED <<JOBS, order, JOBS_LOCK, now, uuids, files>>

\* if job["result"]["file"]: subscripting a result that is still None
\* raises TypeError, which leaves the handler as a 500
result_file(t) ==
    /\ pc[t] = "result_file"
    /\ LET result == JOBS[arg[t].job_id].result IN
         IF result = NoResult
         THEN Reply(t, Response(500, "fault", None))
         ELSE /\ Goto(t, IF result[1].file # None THEN "result_send"
                                                  ELSE "result_url")
              /\ UNCHANGED <<loc, resp>>
    /\ UNCHANGED <<JOBS, order, JOBS_LOCK, now, uuids, files, requests, arg>>

\* send_from_directory(UPLOAD_DIR, job["result"]["file"]): the file is read
\* again; a None here raises, a name that is not stored is a 404
result_send(t) ==
    /\ pc[t] = "result_send"
    /\ LET result == JOBS[arg[t].job_id].result IN
         IF result = NoResult \/ result[1].file = None
         THEN Reply(t, Response(500, "fault", None))
         ELSE IF result[1].file \in files
         THEN Reply(t, Response(200, "artifact", result[1].file))
         ELSE Reply(t, Response(404, "no such file", result[1].file))
    /\ UNCHANGED <<JOBS, order, JOBS_LOCK, now, uuids, files, requests, arg>>

\* jsonify({"url": job["result"]["url"]})
result_url(t) ==
    /\ pc[t] = "result_url"
    /\ LET result == JOBS[arg[t].job_id].result IN
         IF result = NoResult
         THEN Reply(t, Response(500, "fault", None))
         ELSE Reply(t, Response(200, "url", result[1].url))
    /\ UNCHANGED <<JOBS, order, JOBS_LOCK, now, uuids, files, requests, arg>>

\* ---------------------------------------------------------- the program
EmptyStore ==
    /\ JOBS = << >>
    /\ order = << >>
    /\ JOBS_LOCK = NoThread
    /\ now = 1
    /\ uuids = 0
    /\ files = {}
    /\ requests = 0

Init ==
    /\ EmptyStore
    /\ pc = [t \in Threads |-> "idle"]
    /\ arg = [t \in Threads |-> NoArg]
    /\ loc = [t \in Threads |-> NoLoc]
    /\ resp = [t \in Threads |-> NoResp]

\* requests of every kind but status, on NumThreads threads
Next ==
    \/ Tick
    \/ \E t \in Threads :
         \/ Respond(t)
         \/ generate(t)
         \/ new_job_insert(t)
         \/ job_next(t)
         \/ claim_status(t)
         \/ claim_started(t)
         \/ claim_worker(t)
         \/ update_job_failed(t)
         \/ failed_finished(t)
         \/ failed_error(t)
         \/ job_complete(t)
         \/ complete_save(t)
         \/ update_job_done(t)
         \/ done_finished(t)
         \/ done_result(t)
         \/ url_finished(t)
         \/ url_result(t)
         \/ get_result(t)
         \/ result_file(t)
         \/ result_send(t)
         \/ result_url(t)

Spec == Init /\ [][Next]_vars

\* the lifecycle requests next to status requests
NextStatus ==
    \/ Tick
    \/ \E t \in Threads :
         \/ Respond(t)
         \/ generate(t)
         \/ new_job_insert(t)
         \/ job_next(t)
         \/ claim_status(t)
         \/ claim_started(t)
         \/ claim_worker(t)
         \/ update_job_failed(t)
         \/ failed_finished(t)
         \/ failed_error(t)
         \/ job_complete(t)
         \/ complete_save(t)
         \/ update_job_done(t)
         \/ done_finished(t)
         \/ done_result(t)
         \/ url_finished(t)
         \/ url_result(t)
         \/ status(t)
         \/ status_items(t)

SpecStatus == Init /\ [][NextStatus]_vars

\* ------------------------------------------ N workers claim from M jobs
Workers == 1..NumWorkers
OldJob == "old"

\* a job an earlier worker has claimed, and perhaps finished
OldRecords ==
    LET claimed == [NewJobRecord(OldJob, "sunset wedding stage", "{}", 1)
                      EXCEPT !.status = "running", !.started_at = 1,
                             !.worker_id = "w0"]
    IN  {claimed,
         [claimed EXCEPT !.status = "done", !.finished_at = 1,
                         !.result = Result(None, "http://cdn/scene.glb")],
         [claimed EXCEPT !.status = "failed", !.finished_at = 1,
                         !.error = "render timeout"]}

\* the sequences that hold every element of S once
Orderings(S) ==
    {s \in [1..Cardinality(S) -> S] : \A e \in S : \E i \in DOMAIN s : s[i] = e}

\* M < N queued jobs, perhaps next to an old job, and N workers about to
\* call job_next
InitClaim ==
    /\ \E M \in 0..(NumWorkers - 1), olds \in {{}} \cup {{r} : r \in OldRecords} :
         LET ids == {Uuid4(i) : i \in 1..M} \cup {r.id : r \in olds} IN
           /\ JOBS = [j \in ids |->
                        IF j = OldJob THEN CHOOSE r \in olds : TRUE
                        ELSE NewJobRecord(j, "sunset wedding stage", "{}", 1)]
           /\ order \in Orderings(ids)
           /\ uuids = M
    /\ JOBS_LOCK = NoThread
    /\ now = 1
    /\ files = {}
    /\ requests = MaxRequests - NumWorkers
    /\ pc = [t \in Workers |-> "idle"]
    /\ arg = [t \in Workers |-> NoArg]
    /\ loc = [t \in Workers |-> NoLoc]
    /\ resp = [t \in Workers |-> NoResp]

NextClaim ==
    \/ Tick
    \/ \E t \in Workers :
         \/ job_next(t)
         \/ claim_status(t)
         \/ claim_started(t)
         \/ claim_worker(t)

SpecClaim == InitClaim /\ [][NextClaim]_vars

\* ------------------------------ every lookup by id, on a store in use
\* the records one job can have between two requests: queued, claimed,
\* completed with a file or with a url, failed
LookupRecords ==
    LET id == Uuid4(1)
        queued == NewJobRecord(id, "sunset wedding stage", "{}", 1)
        claimed == [queued EXCEPT !.status = "running", !.started_at = 1,
                                  !.worker_id = "w1"]
    IN  {queued, claimed,
         [claimed EXCEPT !.status = "done", !.finished_at = 1,
                         !.result = Result(OutFname(id, "scene.glb"),
                                           ResultUrl(id))],
         [claimed EXCEPT !.status = "done", !.finished_at = 1,
                         !.result = Result(None, "http://cdn/scene.glb")],
         [claimed EXCEPT !.status = "failed", !.finished_at = 1,
                         !.error = "render timeout"]}

\* the store is empty or holds one job that earlier requests have left in
\* one of these records; the first request has been served
InitLookup ==
    /\ \/ /\ JOBS = << >>
          /\ order = << >>
          /\ uuids = 0
          /\ files = {}
       \/ \E r \in LookupRecords :
            /\ JOBS = [j \in {r.id} |-> r]
            /\ order = << r.id >>
            /\ uuids = 1
            /\ files = IF r.result # NoResult /\ r.result[1].file # None
                       THEN {r.result[1].file} ELSE {}
    /\ JOBS_LOCK = NoThread
    /\ now = 1
    /\ requests = 1
    /\ pc = [t \in Threads |-> "idle"]
    /\ arg = [t \in Threads |-> NoArg]
    /\ loc = [t \in Threads |-> NoLoc]
    /\ resp = [t \in Threads |-> NoResp]

\* requests of every kind, status and get_result among them, served within
\* one reading of the clock
NextLookup ==
    \E t \in Threads :
       \/ Respond(t)
       \/ generate(t)
       \/ new_job_insert(t)
       \/ job_next(t)
       \/ claim_status(t)
       \/ claim_started(t)
       \/ claim_worker(t)
       \/ update_job_failed(t)
       \/ failed_finished(t)
       \/ failed_error(t)
       \/ job_complete(t)
       \/ complete_save(t)
       \/ update_job_done(t)
       \/ done_finished(t)
       \/ done_result(t)
       \/ url_finished(t)
       \/ url_result(t)
       \/ get_result(t)
       \/ result_file(t)
       \/ result_send(t)
       \/ result_url(t)
       \/ status(t)
       \/ status_items(t)

SpecLookup == InitLookup /\ [][NextLookup]_vars

\* --------------------------------- creates and claims that keep coming
\* the response has been sent and the thread serves the next request: here
\* requests counts the requests being served, so that requests can go on
\* for ever
RespondNext(t) ==
    /\ pc[t] = "ret"
    /\ pc' = [pc EXCEPT ![t] = "idle"]
    /\ arg' = [arg EXCEPT ![t] = NoArg]
    /\ resp' = [resp EXCEPT ![t] = NoResp]
    /\ requests' = requests - 1
    /\ UNCHANGED <<JOBS, order, JOBS_LOCK, now, uuids, files, loc>>

\* creates and claims; the clock stands still, its reading has no part in
\* the scan
NextLive ==
    \E t \in Threads :
       \/ RespondNext(t)
       \/ generate(t)
       \/ new_job_insert(t)
       \/ job_next(t)
       \/ claim_status(t)
       \/ claim_started(t)
       \/ claim_worker(t)

\* a thread that can take its next step takes it (the threads of the
\* server run), and job_next requests keep arriving: whenever one can be
\* taken again and again, one is taken; each of these steps moves pc
Fairness ==
    /\ \A t \in Threads :
          /\ WF_pc(RespondNext(t))
          /\ WF_pc(new_job_insert(t))
          /\ WF_pc(claim_status(t))
          /\ WF_pc(claim_started(t))
          /\ WF_pc(claim_worker(t))
    /\ SF_pc(\E t \in Threads : job_next(t))

SpecLive == Init /\ [][NextLive]_vars /\ Fairness

\* ================================================================ claims
JobFields == {"id", "prompt", "meta", "status", "created_at", "started_at",
              "finished_at", "result", "worker_id", "error"}

\* no lifecycle function is between its first and its last write
Quiescent == JOBS_LOCK = NoThread

\* thread t has returned response kind k
Returned(t, k) == pc[t] = "ret" /\ resp[t].kind = k

\* ---------------------------------------------------------------- C1
\* C1: when N workers have each called job_next once on a store of M < N
\* queued jobs, exactly M calls have returned a job, exactly N - M have
\* returned none, and no two calls have returned the same job.
ClaimExactlyOnce ==
    (\A t \in DOMAIN pc : pc[t] = "ret") =>
       LET got == {t \in DOMAIN pc : resp[t].kind = "job"}
           none == {t \in DOMAIN pc : resp[t].kind = "none"}
           M == Cardinality(DOMAIN JOBS \ {OldJob})
           N == Cardinality(DOMAIN pc)
       IN  /\ Cardinality(got) = M
           /\ Cardinality(none) = N - M
           /\ \A t, u \in got : t # u => resp[t].body # resp[u].body
           /\ \A t \in got : /\ resp[t].body # OldJob
                             /\ JOBS[resp[t].body].status = "running"

\* all workers are back, two of them with a job and one with none
ClaimExactlyOnceWitness ==
    /\ \A t \in DOMAIN pc : pc[t] = "ret"
    /\ Cardinality({t \in DOMAIN pc : resp[t].kind = "job"}) = 2
    /\ \E t \in DOMAIN pc : resp[t].kind = "none"
    /\ OldJob \in DOMAIN JOBS

\* ---------------------------------------------------------------- C2
\* C2: a job whose status is done or failed keeps that status in every
\* later state.
TerminalStatusStays ==
    [][\A j \in DOMAIN JOBS :
         JOBS[j].status \in {"done", "failed"} =>
            JOBS'[j].status = JOBS[j].status]_vars

\* ---------------------------------------------------------------- C3
\* C3: a job that is not queued is not queued in the next state either,
\* and the claim's write of "running" is only ever applied to a queued job,
\* so a job is claimed at most once.
NoReturnToQueued ==
    [][/\ \A j \in DOMAIN JOBS :
            JOBS[j].status # "queued" =>
               j \in DOMAIN JOBS' /\ JOBS'[j].status # "queued"
       /\ \A t \in DOMAIN pc :
            pc[t] = "claim_status" /\ pc'[t] = "claim_started" =>
               JOBS[loc[t].id].status = "queued"]_vars

\* a job has been claimed, and a later claim has found nothing to take
NoReturnToQueuedWitness ==
    /\ \E j \in DOMAIN JOBS :
         JOBS[j].status = "running" /\ JOBS[j].worker_id # None
    /\ \E t \in DOMAIN pc : Returned(t, "none")

\* ---------------------------------------------------------------- C4
\* C4: whenever no lifecycle function is in progress, every job has a
\* result exactly when it is done and an error exactly when it is failed.
ResultIffDoneErrorIffFailed ==
    Quiescent =>
       \A j \in DOMAIN JOBS :
          /\ (JOBS[j].result # NoResult) <=> (JOBS[j].status = "done")
          /\ (JOBS[j].error # None) <=> (JOBS[j].status = "failed")

\* ---------------------------------------------------------------- C5
\* C5: whenever no lifecycle function is in progress, every job has
\* worker_id and started_at set exactly when it is running, done or failed.
ClaimedIffStarted ==
    Quiescent =>
       \A j \in DOMAIN JOBS :
          (JOBS[j].worker_id # None /\ JOBS[j].started_at # NoTime)
             <=> (JOBS[j].status \in {"running", "done", "failed"})

\* ---------------------------------------------------------------- C6
\* C6: created_at never changes, and started_at and finished_at never
\* change once they hold a value.
TimestampsSetOnce ==
    [][\A j \in DOMAIN JOBS :
         /\ JOBS'[j].created_at = JOBS[j].created_at
         /\ JOBS[j].started_at # NoTime =>
               JOBS'[j].started_at = JOBS[j].started_at
         /\ JOBS[j].finished_at # NoTime =>
               JOBS'[j].finished_at = JOBS[j].finished_at]_vars

\* ---------------------------------------------------------------- C7
\* C7: the step that inserts the job of a create with a non-empty prompt
\* adds one record under a new id, with status queued, created_at set and
\* started_at, finished_at, result, error and worker_id absent, and leaves
\* the records and the order of the jobs that were there unchanged.
CreateInsertsQueued ==
    [][\A t \in DOMAIN pc :
         pc[t] = "new_job_insert" /\ pc'[t] = "ret" =>
            LET id == resp'[t].body IN
              /\ arg[t].data # ""
              /\ id \notin DOMAIN JOBS
              /\ DOMAIN JOBS' = DOMAIN JOBS \cup {id}
              /\ JOBS'[id].id = id
              /\ JOBS'[id].prompt = arg[t].data
              /\ JOBS'[id].status = "queued"
              /\ JOBS'[id].created_at # NoTime
              /\ JOBS'[id].started_at = NoTime
              /\ JOBS'[id].finished_at = NoTime
              /\ JOBS'[id].result = NoResult
              /\ JOBS'[id].error = None
              /\ JOBS'[id].worker_id = None
              /\ \A j \in DOMAIN JOBS : JOBS'[j] = JOBS[j]
              /\ order' = Append(order, id)]_vars

\* a create has returned the id of a second job while the first job is no
\* longer queued
CreateInsertsQueuedWitness ==
    \E t \in DOMAIN pc :
       /\ Returned(t, "job_id")
       /\ JOBS[resp[t].body].status = "queued"
       /\ \E j \in DOMAIN JOBS : j # resp[t].body /\ JOBS[j].status # "queued"

\* ---------------------------------------------------------------- C8
\* C8: a claim that finds no queued job returns none and leaves the store
\* as it is; a claim that finds one picks a queued job, and until it
\* returns nothing in the store changes but that job's status, started_at
\* and worker_id, which at its return are running, set, and the caller's
\* worker id.
ClaimLabels == {"claim_status", "claim_started", "claim_worker"}

ClaimFrame ==
    [][\A t \in DOMAIN pc :
         /\ (pc[t] = "idle" /\ pc'[t] # "idle" /\ arg'[t].op = "job_next") =>
               /\ store' = store
               /\ IF \E j \in DOMAIN JOBS : JOBS[j].status = "queued"
                  THEN /\ pc'[t] = "claim_status"
                       /\ JOBS[loc'[t].id].status = "queued"
                  ELSE Returned(t, "none")'
         /\ pc[t] \in ClaimLabels =>
               /\ order' = order
               /\ DOMAIN JOBS' = DOMAIN JOBS
               /\ \A j \in DOMAIN JOBS \ {loc[t].id} : JOBS'[j] = JOBS[j]
               /\ \A f \in JobFields \ {"status", "started_at", "worker_id"} :
                     JOBS'[loc[t].id][f] = JOBS[loc[t].id][f]
               /\ pc'[t] = "ret" =>
                     /\ JOBS'[loc[t].id].status = "running"
                     /\ JOBS'[loc[t].id].started_at # NoTime
                     /\ JOBS'[loc[t].id].worker_id = arg[t].data
                     /\ resp'[t] = Response(200, "job", loc[t].id)]_vars

\* a claim has returned a job while the store holds a second job
ClaimFrameWitness ==
    \E t \in DOMAIN pc :
       /\ Returned(t, "job")
       /\ JOBS[resp[t].body].worker_id = arg[t].data
       /\ Cardinality(DOMAIN JOBS) = 2

\* ---------------------------------------------------------------- C9
\* C9: the record a status request returns is never a partially applied
\* transition: not running without worker_id or started_at, not done
\* without result or finished_at, not failed without error or finished_at.
StatusReadConsistent ==
    \A t \in DOMAIN pc :
       Returned(t, "record") =>
          LET r == resp[t].body IN
            /\ r.status = "running" =>
                  r.worker_id # None /\ r.started_at # NoTime
            /\ r.status = "done" =>
                  r.result # NoResult /\ r.finished_at # NoTime
            /\ r.status = "failed" =>
                  r.error # None /\ r.finished_at # NoTime

\* ---------------------------------------------------------------- C10
\* C10: a get_result request for an existing job whose status is not done
\* returns "result not ready" at once; a request goes on to read the result
\* only from a status it saw as done, and an artifact or a url is returned
\* only by a request that went on.
ResultLabels == {"result_file", "result_send", "result_url"}

GetResultOnlyWhenDone ==
    [][\A t \in DOMAIN pc :
         /\ (pc[t] = "idle" /\ pc'[t] # "idle" /\ arg'[t].op = "get_result"
               /\ arg'[t].job_id \in DOMAIN JOBS) =>
               IF JOBS[arg'[t].job_id].status # "done"
               THEN Returned(t, "result not ready")'
               ELSE pc'[t] = "result_file"
         /\ (pc[t] # pc'[t] /\ pc'[t] \in ResultLabels) =>
               \/ pc[t] = "idle" /\ JOBS[arg'[t].job_id].status = "done"
               \/ pc[t] = "result_file"
         /\ (pc[t] # "ret" /\ pc'[t] = "ret"
               /\ resp'[t].kind \in {"artifact", "url"}) =>
               pc[t] \in {"result_send", "result_url"}]_vars

\* a get_result request has returned "result not ready" for a job that has
\* failed
GetResultOnlyWhenDoneWitness ==
    \E t \in DOMAIN pc :
       /\ Returned(t, "result not ready")
       /\ arg[t].job_id \in DOMAIN JOBS
       /\ JOBS[arg[t].job_id].status = "failed"

\* ---------------------------------------------------------------- C11
\* C11: no get_result request ends in a fault: whatever completions run
\* beside it, it returns not found, result not ready, an artifact or a
\* url, and never subscripts a result that is still absent.
GetResultNeverFaults ==
    \A t \in DOMAIN pc : ~Returned(t, "fault")

\* ---------------------------------------------------------------- C12
\* C12: update_job_done(id, ref) first writes status done and nothing else;
\* until it returns nothing in the store changes but that job's finished_at
\* and result; at its return the job is done, finished_at is set,
\* result.file is ref and result.url is "/result/<id>", so prompt, meta,
\* created_at, started_at, worker_id and every other job are as they were.
DoneLabels == {"done_finished", "done_result"}

UpdateJobDoneEffect ==
    [][\A t \in DOMAIN pc :
         LET id == arg[t].job_id IN
         /\ (pc[t] = "update_job_done" /\ pc'[t] = "done_finished") =>
               /\ order' = order
               /\ JOBS' = [JOBS EXCEPT ![id].status = "done"]
         /\ pc[t] \in DoneLabels =>
               /\ order' = order
               /\ DOMAIN JOBS' = DOMAIN JOBS
               /\ \A j \in DOMAIN JOBS \ {id} : JOBS'[j] = JOBS[j]
               /\ \A f \in JobFields \ {"finished_at", "result"} :
                     JOBS'[id][f] = JOBS[id][f]
               /\ pc'[t] = "ret" =>
                     /\ JOBS'[id].status = "done"
                     /\ JOBS'[id].finished_at # NoTime
                     /\ JOBS'[id].result =
                           << [file |-> arg[t].data, url |-> "/result/" \o id] >>]_vars

\* a completion with a file has returned for a job that a worker had claimed
UpdateJobDoneEffectWitness ==
    \E t \in DOMAIN pc :
       /\ Returned(t, "ok")
       /\ arg[t].op = "job_complete"
       /\ JOBS[arg[t].job_id].status = "done"
       /\ JOBS[arg[t].job_id].worker_id # None
       /\ JOBS[arg[t].job_id].started_at # NoTime
       /\ JOBS[arg[t].job_id].result # NoResult
       /\ JOBS[arg[t].job_id].result[1].file = arg[t].data

\* ---------------------------------------------------------------- C13
\* C13: the model_url branch of job_complete first writes status done and
\* nothing else; until it returns nothing in the store changes but that
\* job's finished_at and result; at its return the job is done, finished_at
\* is set, result.file is none and result.url is the url of the request,
\* and every other job is as it was.
UrlLabels == {"url_finished", "url_result"}

UrlCompletionEffect ==
    [][\A t \in DOMAIN pc :
         /\ (pc[t] = "idle" /\ pc'[t] = "url_finished") =>
               /\ order' = order
               /\ JOBS' = [JOBS EXCEPT ![arg'[t].job_id].status = "done"]
         /\ pc[t] \in UrlLabels =>
               LET id == arg[t].job_id IN
               /\ order' = order
               /\ DOMAIN JOBS' = DOMAIN JOBS
               /\ \A j \in DOMAIN JOBS \ {id} : JOBS'[j] = JOBS[j]
               /\ \A f \in JobFields \ {"finished_at", "result"} :
                     JOBS'[id][f] = JOBS[id][f]
               /\ pc'[t] = "ret" =>
                     /\ JOBS'[id].status = "done"
                     /\ JOBS'[id].finished_at # NoTime
                     /\ JOBS'[id].result =
                           << [file |-> None, url |-> arg[t].data] >>
                     /\ arg[t].data \in ModelUrls \ {""}]_vars

\* a completion with a model_url has returned while the store holds a
\* second job
UrlCompletionEffectWitness ==
    \E t \in DOMAIN pc :
       /\ Returned(t, "ok")
       /\ arg[t].data \in ModelUrls
       /\ JOBS[arg[t].job_id].result = << [file |-> None, url |-> arg[t].data] >>
       /\ Cardinality(DOMAIN JOBS) = 2

\* ---------------------------------------------------------------- C14
\* C14: update_job_failed(id, msg) first writes status failed and nothing
\* else, and a job it finds running has no result and has the worker_id
\* and started_at of its claim; until it returns nothing in the store
\* changes but that job's finished_at and error; at its return the job is
\* failed, finished_at is set and error is msg, so result is still absent
\* and worker_id and started_at are still those of the claim.
FailLabels == {"failed_finished", "failed_error"}

FailEffect ==
    [][\A t \in DOMAIN pc :
         /\ (pc[t] = "idle" /\ pc'[t] = "failed_finished") =>
               LET id == arg'[t].job_id IN
               /\ order' = order
               /\ JOBS' = [JOBS EXCEPT ![id].status = "failed"]
               /\ JOBS[id].status = "running" =>
                     /\ JOBS[id].result = NoResult
                     /\ JOBS[id].worker_id # None
                     /\ JOBS[id].started_at # NoTime
         /\ pc[t] \in FailLabels =>
               LET id == arg[t].job_id IN
               /\ order' = order
               /\ DOMAIN JOBS' = DOMAIN JOBS
               /\ \A j \in DOMAIN JOBS \ {id} : JOBS'[j] = JOBS[j]
               /\ \A f \in JobFields \ {"finished_at", "error"} :
                     JOBS'[id][f] = JOBS[id][f]
               /\ pc'[t] = "ret" =>
                     /\ JOBS'[id].status = "failed"
                     /\ JOBS'[id].finished_at # NoTime
                     /\ JOBS'[id].error = arg[t].data
                     /\ arg[t].data \in ErrorMsgs]_vars

\* update_job_failed has returned for a job that a worker had claimed and
\* that has no result
FailEffectWitness ==
    \E t \in DOMAIN pc :
       /\ Returned(t, "job")
       /\ arg[t].op = "update_job_failed"
       /\ JOBS[arg[t].job_id].status = "failed"
       /\ JOBS[arg[t].job_id].error = arg[t].data
       /\ JOBS[arg[t].job_id].worker_id # None
       /\ JOBS[arg[t].job_id].started_at # NoTime
       /\ JOBS[arg[t].job_id].result = NoResult

\* ---------------------------------------------------------------- C15
\* C15: a status, get_result, job_complete (file or model_url) or
\* update_job_failed request for an id that is not in the store returns at
\* once with a not-found answer, which is not get_result's "result not
\* ready", and leaves the store and the saved files as they are.
LookupOps == {"status", "get_result", "job_complete", "update_job_failed"}
NotFoundKinds == {"not found", "job not found"}

UnknownIdNotFound ==
    [][\A t \in DOMAIN pc :
         (pc[t] = "idle" /\ pc'[t] # "idle" /\ arg'[t].op \in LookupOps
            /\ arg'[t].job_id \notin DOMAIN JOBS) =>
               /\ pc'[t] = "ret"
               /\ resp'[t].kind \in NotFoundKinds
               /\ resp'[t].kind # "result not ready"
               /\ resp'[t].code \in {0, 404}
               /\ store' = store
               /\ files' = files
               /\ JOBS_LOCK' = JOBS_LOCK]_vars

\* a status request and a get_result request for an unknown id have both
\* returned not found while the store holds a job
UnknownIdNotFoundWitness ==
    /\ JOBS # << >>
    /\ \E t, u \in DOMAIN pc :
         /\ Returned(t, "not found") /\ arg[t].op = "status"
         /\ Returned(u, "not found") /\ arg[u].op = "get_result"
         /\ arg[t].job_id \notin DOMAIN JOBS
         /\ arg[u].job_id \notin DOMAIN JOBS

\* ---------------------------------------------------------------- C16
\* C16: no step removes a job from the store or changes the id, prompt,
\* meta or created_at of a job that is in it; every record is stored under
\* its own id; a create inserts under an id that is not yet in the store,
\* and two creates in progress hold different ids.
JobsPermanent ==
    [][/\ DOMAIN JOBS \subseteq DOMAIN JOBS'
       /\ \A j \in DOMAIN JOBS :
             \A f \in {"id", "prompt", "meta", "created_at"} :
                JOBS'[j][f] = JOBS[j][f]
       /\ \A j \in DOMAIN JOBS' : JOBS'[j].id = j
       /\ \A t \in DOMAIN pc :
             pc[t] = "new_job_insert" =>
                /\ loc[t].id \notin DOMAIN JOBS
                /\ \A u \in DOMAIN pc \ {t} :
                      pc[u] = "new_job_insert" => loc[u].id # loc[t].id]_vars

\* the store holds two jobs, the first created of them completed, both
\* with the prompt and the created_at of their creation
JobsPermanentWitness ==
    /\ Cardinality(DOMAIN JOBS) = 2
    /\ Len(order) = 2
    /\ JOBS[order[1]].status = "done"
    /\ JOBS[order[1]].result # NoResult
    /\ \A j \in DOMAIN JOBS :
          JOBS[j].prompt = "sunset wedding stage" /\ JOBS[j].created_at # NoTime

CompletionPermissive ==
    [][\A t \in DOMAIN pc :
         /\ (pc[t] = "idle" /\ pc'[t] # "idle" /\ arg'[t].op = "job_complete"
               /\ arg'[t].job_id \in DOMAIN JOBS
               /\ arg'[t].data \notin {None, ""}) =>
               /\ pc'[t] \in {"complete_save", "url_finished"}
               /\ pc'[t] = "url_finished" =>
                     JOBS'[arg'[t].job_id].status = "done"
         /\ (pc[t] = "complete_save" /\ pc'[t] # pc[t]) =>
               pc'[t] = "update_job_done"
         /\ (pc[t] = "update_job_done" /\ pc'[t] # pc[t]) =>
               /\ pc'[t] = "done_finished"
               /\ JOBS'[arg[t].job_id].status = "done"
         /\ (pc[t] \in {"done_result", "url_result"} /\ pc'[t] # pc[t]) =>
               /\ JOBS'[arg[t].job_id].status = "done"
               /\ Returned(t, "ok")'
               /\ resp'[t].code = 200]_vars

\* a completion with a file has returned for a job that no worker had
\* claimed and that had failed
CompletionPermissiveWitness ==
    \E t \in DOMAIN pc :
       /\ Returned(t, "ok")
       /\ arg[t].data \in {OutFname(arg[t].job_id, f) : f \in FileNames}
       /\ JOBS[arg[t].job_id].status = "done"
       /\ JOBS[arg[t].job_id].worker_id = None
       /\ JOBS[arg[t].job_id].error # None

\* ---------------------------------------------------------------- C19
\* C19 as the claim states it: the job a claim takes is, among the jobs
\* queued at that moment, one with the earliest created_at.
ClaimTakesEarliestCreated ==
    [][\A t \in DOMAIN pc :
         (pc[t] = "idle" /\ pc'[t] = "claim_status") =>
            \A k \in DOMAIN JOBS :
               JOBS[k].status = "queued" =>
                  JOBS[loc'[t].id].created_at <= JOBS[k].created_at]_vars

\* C19 amended: the job a claim takes is, among the jobs queued at that
\* moment, the one that was inserted into the store first; its created_at
\* can be later than that of a queued job inserted after it.
ClaimTakesFirstInserted ==
    [][\A t \in DOMAIN pc :
         (pc[t] = "idle" /\ pc'[t] = "claim_status") =>
            \E i \in DOMAIN order :
               /\ order[i] = loc'[t].id
               /\ JOBS[order[i]].status = "queued"
               /\ \A k \in 1..(i - 1) : JOBS[order[k]].status # "queued"]_vars

\* a claim has taken the first inserted job while a job with an earlier
\* created_at, inserted after it, is queued
ClaimTakesFirstInsertedWitness ==
    \E t \in DOMAIN pc :
       /\ pc[t] = "claim_status"
       /\ Len(order) = 2
       /\ loc[t].id = order[1]
       /\ JOBS[order[2]].status = "queued"
       /\ JOBS[order[2]].created_at < JOBS[order[1]].created_at

\* ---------------------------------------------------------------- C20
\* C20: in every state a job that is done with a result.file has that file,
\* named "<job_id>__<filename>", among the saved files, and no get_result
\* request is answered that the file of a result does not exist.
ArtifactStoredBeforeDone ==
    /\ \A j \in DOMAIN JOBS :
          (JOBS[j].status = "done" /\ JOBS[j].result # NoResult
             /\ JOBS[j].result[1].file # None) =>
                /\ JOBS[j].result[1].file \in files
                /\ \E f \in FileNames : JOBS[j].result[1].file = j \o "__" \o f
    /\ \A t \in DOMAIN pc : ~Returned(t, "no such file")

\* a get_result request has returned the artifact of a job that is done
ArtifactStoredBeforeDoneWitness ==
    \E t \in DOMAIN pc :
       /\ Returned(t, "artifact")
       /\ JOBS[arg[t].job_id].status = "done"
       /\ resp[t].body = JOBS[arg[t].job_id].result[1].file
       /\ resp[t].body \in files

====
